---- MODULE Spec2Model ----
(***************************************************************************)
(* Model of the Tauri command handlers of desktop-app/src-tauri/src/main.rs *)
(* (classify_file, organize_folder, list_files) together with the Python    *)
(* backend they spawn (src/cli/classify_single.py, src/cli/commands.py).    *)
(* The backend's code is not part of the sources; it is modelled from the   *)
(* specification (sections 4.1, 4.2 and 7).                                  *)
(***************************************************************************)
EXTENDS Integers, Sequences, FiniteSets, TLC

(* ------------------------------ bounds --------------------------------- *)
\* number of files the watched folder holds at start
MaxFiles == 2
\* largest number of lines the backend writes to stderr
MaxErrLines == 2
\* largest number of entries of the listed directory
MaxEntries == 3

(* --------------------------- the environment --------------------------- *)
\* invocation slots of the async runtime: two commands can be in flight
Calls == {"c1", "c2"}

LF == "\n"
Replacement == "U+FFFD"
\* bytes that are not valid UTF-8
InvalidBytes == {"0xFF", "0xFE"}

\* paths are sequences of components below the root
AppDir == <<"app", "desktop-app">>
RootDir == <<>>
Deleted == <<"(deleted)">>
ClassifyScript == <<"app", "src", "cli", "classify_single.py">>
CommandsScript == <<"app", "src", "cli", "commands.py">>

RECURSIVE Display(_)
\* the text of an absolute path
Display(p) ==
    IF p = <<>> THEN "" ELSE "/" \o Head(p) \o Display(Tail(p))

FileNames == <<"a.pdf", "b.jpg", "c.txt">>
\* the files of the folder to organise
Files == {FileNames[i] : i \in 1..MaxFiles}
Folder == "/in"
Directories == {Folder}
RegularFiles == {"/in/a.pdf"}
FilePaths == {"/in/a.pdf", "/in/nothing"}
Folders == {Folder, "/nowhere"}
\* the enumerated tiers, and the tier strings a caller can send
Tiers == {"free", "pro", "enterprise"}
TierArgs == {"pro", "platinum"}

Range(s) == {s[i] : i \in DOMAIN s}

VARIABLES
    cwd,        \* the process's current directory (Deleted: it cannot be read)
    scripts,    \* the script files that exist on disk
    python3,    \* whether the python3 interpreter can be started
    fs,         \* the folder to organise: file -> [path, content]
    req,        \* per call: the arguments of the command in progress
    pc,         \* per call: the handler's position
    project_root,   \* per call: the local of that name
    python_script,  \* per call: the local of that name
    argv,       \* per call: the arguments handed to the subprocess
    spawns,     \* per call: subprocesses spawned so far by this call
    child,      \* per call: the subprocess
    ret,        \* per call: the value returned
    before,     \* per call: the folder as it was when the call started
    ls          \* the list_files call

vars == <<cwd, scripts, python3, fs, req, pc, project_root, python_script,
          argv, spawns, child, ret, before, ls>>

(* ------------------------------ values --------------------------------- *)
NoPath == <<"(none)">>
NoReq ==
    [cmd |-> "none", file_path |-> "", folder |-> "", preview |-> FALSE,
     auto_approve |-> FALSE, deep_analysis |-> FALSE,
     use_multi_model |-> FALSE, tier |-> ""]

ClassifyRequests ==
    {[cmd |-> "classify", file_path |-> f, folder |-> "", preview |-> FALSE,
      auto_approve |-> FALSE, deep_analysis |-> FALSE,
      use_multi_model |-> m, tier |-> t] :
        f \in FilePaths, m \in BOOLEAN, t \in TierArgs}

OrganizeRequests ==
    {[cmd |-> "organize", file_path |-> "", folder |-> d, preview |-> p,
      auto_approve |-> a, deep_analysis |-> dp,
      use_multi_model |-> m, tier |-> t] :
        d \in Folders, p \in BOOLEAN, a \in BOOLEAN, dp \in BOOLEAN,
        m \in BOOLEAN, t \in TierArgs}

Requests == ClassifyRequests \cup OrganizeRequests

NoObj == [garbage |-> TRUE]
NoResult == [none |-> TRUE]
\* what a process writes to stdout: a JSON object, a report, or other text
NoStdout == [json |-> FALSE, obj |-> NoObj, report |-> <<>>]
NoChild ==
    [st |-> "none", status |-> 0, stdout |-> NoStdout, stderr |-> <<>>,
     phase |-> "none", todo |-> <<>>, scanned |-> {}, moved |-> {}]
NoRet == [tag |-> "none", err |-> <<>>, result |-> NoResult, text |-> <<>>]

Ok_result(r) == [tag |-> "Ok", err |-> <<>>, result |-> r, text |-> <<>>]
Ok_text(t) == [tag |-> "Ok", err |-> <<>>, result |-> NoResult, text |-> t]
Err(msg) == [tag |-> "Err", err |-> msg, result |-> NoResult, text |-> <<>>]

\* Display of std::io::Error and of serde_json::Error: one line each
IoErrorText == "No such file or directory (os error 2)"
SerdeErrorText == "expected value at line 1 column 1"
\* {:?} of a PathBuf: the quoted, escaped text
Debug(p) == "\"" \o Display(p) \o "\""

(* ----------------------------- the shell ------------------------------- *)
ScriptName(r) ==
    IF r.cmd = "classify" THEN "classify_single.py" ELSE "commands.py"

\* String::from_utf8_lossy: invalid bytes become U+FFFD
from_utf8_lossy(bytes) ==
    [i \in DOMAIN bytes |->
        IF bytes[i] \in InvalidBytes THEN Replacement ELSE bytes[i]]

classify_args(script, r) ==
    LET a0 == <<Display(script), "--file", r.file_path, "--json">>
    IN  IF r.use_multi_model
        THEN Append(Append(Append(a0, "--multi-model"), "--tier"), r.tier)
        ELSE a0

\* organize_args without the --preview flag
organize_args_no_preview(script, r) ==
    LET a0 == <<Display(script), "organize", r.folder>>
        a2 == IF r.auto_approve THEN Append(a0, "--auto") ELSE a0
        a3 == IF r.deep_analysis THEN Append(a2, "--deep") ELSE a2
    IN  IF r.use_multi_model
        THEN Append(Append(Append(a3, "--multi-model"), "--tier"), r.tier)
        ELSE a3

\* organize_args with --auto pushed ahead of --preview
organize_args_reordered(script, r) ==
    LET a0 == <<Display(script), "organize", r.folder>>
        a1 == IF r.auto_approve THEN Append(a0, "--auto") ELSE a0
        a2 == IF r.preview THEN Append(a1, "--preview") ELSE a1
        a3 == IF r.deep_analysis THEN Append(a2, "--deep") ELSE a2
    IN  IF r.use_multi_model
        THEN Append(Append(Append(a3, "--multi-model"), "--tier"), r.tier)
        ELSE a3

organize_args(script, r) ==
    LET a0 == <<Display(script), "organize", r.folder>>
        a1 == IF r.preview THEN Append(a0, "--preview") ELSE a0
        a2 == IF r.auto_approve THEN Append(a1, "--auto") ELSE a1
        a3 == IF r.deep_analysis THEN Append(a2, "--deep") ELSE a2
    IN  IF r.use_multi_model
        THEN Append(Append(Append(a3, "--multi-model"), "--tier"), r.tier)
        ELSE a3

build_args(script, r) ==
    IF r.cmd = "classify" THEN classify_args(script, r)
    ELSE organize_args(script, r)

RequiredFields ==
    {"category", "confidence", "suggested_path", "tags", "model_used",
     "processing_time_ms", "tokens_used", "cost_usd"}
OptionalFields == {"subcategory", "suggested_name", "summary", "reasoning"}
\* u32 fields reject negative numbers (the model's numbers stay far below
\* the upper limit of u32)
IsU32(n) == n >= 0

\* whether serde_json::from_str::<ClassificationResult> accepts the text
Parses(out) ==
    /\ out.json
    /\ RequiredFields \subseteq DOMAIN out.obj
    /\ IsU32(out.obj.processing_time_ms)
    /\ IsU32(out.obj.tokens_used)

Opt(obj, f) == IF f \in DOMAIN obj THEN obj[f] ELSE "None"

\* the ClassificationResult serde builds from an accepted object
ClassificationResult(obj) ==
    [category |-> obj.category,
     subcategory |-> Opt(obj, "subcategory"),
     confidence |-> obj.confidence,
     suggested_path |-> obj.suggested_path,
     suggested_name |-> Opt(obj, "suggested_name"),
     tags |-> obj.tags,
     summary |-> Opt(obj, "summary"),
     reasoning |-> Opt(obj, "reasoning"),
     model_used |-> obj.model_used,
     processing_time_ms |-> obj.processing_time_ms,
     tokens_used |-> obj.tokens_used,
     cost_usd |-> obj.cost_usd]

from_str(out) ==
    IF Parses(out) THEN Ok_result(ClassificationResult(out.obj))
    ELSE Err(<<"Failed to parse JSON: ", SerdeErrorText>>)

\* classify_result without the check of the exit status
classify_result_ignores_status(out) ==
    from_str(out.stdout)

\* classify_file after cmd.output() has returned the finished process
classify_result(out) ==
    IF out.status # 0
    THEN Err(<<"Python script failed: ">> \o from_utf8_lossy(out.stderr))
    ELSE from_str(out.stdout)

\* organize_result without the check of the exit status
organize_result_ignores_status(out) ==
    Ok_text(from_utf8_lossy(out.stdout.report))

\* organize_folder after cmd.output() has returned the finished process
organize_result(out) ==
    IF out.status # 0
    THEN Err(<<"Organization failed: ">> \o from_utf8_lossy(out.stderr))
    ELSE Ok_text(from_utf8_lossy(out.stdout.report))

Return(c, v) ==
    /\ ret' = [ret EXCEPT ![c] = v]
    /\ pc' = [pc EXCEPT ![c] = "done"]

\* the frontend invokes a command
Invoke(c, r) ==
    /\ pc[c] = "idle"
    /\ req' = [req EXCEPT ![c] = r]
    /\ pc' = [pc EXCEPT ![c] = "current_dir"]
    /\ before' = [before EXCEPT ![c] = fs]
    /\ UNCHANGED <<cwd, scripts, python3, fs, project_root, python_script,
                   argv, spawns, child, ret, ls>>

\* std::env::current_dir().map_err(..)?
current_dir(c) ==
    /\ pc[c] = "current_dir"
    /\ IF cwd = Deleted
       THEN /\ Return(c, Err(<<"Failed to get current directory: ",
                               IoErrorText>>))
            /\ UNCHANGED project_root
       ELSE /\ project_root' = [project_root EXCEPT ![c] = cwd]
            /\ pc' = [pc EXCEPT ![c] = "parent"]
            /\ UNCHANGED ret
    /\ UNCHANGED <<cwd, scripts, python3, fs, req, python_script, argv,
                   spawns, child, before, ls>>

\* project_root.parent().ok_or(..)?.join("src").join("cli").join(script)
parent(c) ==
    /\ pc[c] = "parent"
    /\ LET root == project_root[c] IN
       IF root = <<>>
       THEN /\ Return(c, Err(<<"Failed to get parent directory">>))
            /\ UNCHANGED python_script
       ELSE /\ python_script' =
                [python_script EXCEPT ![c] =
                    SubSeq(root, 1, Len(root) - 1)
                        \o <<"src", "cli", ScriptName(req[c])>>]
            /\ pc' = [pc EXCEPT ![c] = "exists"]
            /\ UNCHANGED ret
    /\ UNCHANGED <<cwd, scripts, python3, fs, req, project_root, argv,
                   spawns, child, before, ls>>

\* exists without the test of the script file
exists_unchecked(c) ==
    /\ pc[c] = "exists"
    /\ pc' = [pc EXCEPT ![c] = "spawn"]
    /\ UNCHANGED ret
    /\ UNCHANGED <<cwd, scripts, python3, fs, req, project_root,
                   python_script, argv, spawns, child, before, ls>>

\* if !python_script.exists() { return Err(..) }
exists(c) ==
    /\ pc[c] = "exists"
    /\ IF python_script[c] \notin scripts
       THEN Return(c, Err(<<"Python script not found at: ",
                            Debug(python_script[c])>>))
       ELSE /\ pc' = [pc EXCEPT ![c] = "spawn"]
            /\ UNCHANGED ret
    /\ UNCHANGED <<cwd, scripts, python3, fs, req, project_root,
                   python_script, argv, spawns, child, before, ls>>

\* the command is built and cmd.output() starts the subprocess
spawn(c) ==
    /\ pc[c] = "spawn"
    /\ argv' = [argv EXCEPT ![c] = build_args(python_script[c], req[c])]
    /\ IF ~python3
       THEN /\ Return(c, Err(<<"Failed to execute Python: ", IoErrorText>>))
            /\ UNCHANGED <<spawns, child>>
       ELSE /\ spawns' = [spawns EXCEPT ![c] = @ + 1]
            /\ child' = [child EXCEPT ![c] = [NoChild EXCEPT !.st = "running"]]
            /\ pc' = [pc EXCEPT ![c] = "output"]
            /\ UNCHANGED ret
    /\ UNCHANGED <<cwd, scripts, python3, fs, req, project_root,
                   python_script, before, ls>>

\* output that does not wait for the subprocess to end
output_without_wait(c) ==
    /\ pc[c] = "output"
    /\ Return(c, IF req[c].cmd = "classify" THEN classify_result(child[c])
                 ELSE organize_result(child[c]))
    /\ UNCHANGED <<cwd, scripts, python3, fs, req, project_root,
                   python_script, argv, spawns, child, before, ls>>

\* cmd.output() returns once the subprocess has ended; the rest of the
\* handler turns the output into the returned value
output(c) ==
    /\ pc[c] = "output"
    /\ child[c].st = "exited"
    /\ Return(c, IF req[c].cmd = "classify" THEN classify_result(child[c])
                 ELSE organize_result(child[c]))
    /\ UNCHANGED <<cwd, scripts, python3, fs, req, project_root,
                   python_script, argv, spawns, child, before, ls>>

\* the frontend takes the returned value; the call's locals are dropped
Collect(c) ==
    /\ pc[c] = "done"
    /\ pc' = [pc EXCEPT ![c] = "idle"]
    /\ req' = [req EXCEPT ![c] = NoReq]
    /\ project_root' = [project_root EXCEPT ![c] = NoPath]
    /\ python_script' = [python_script EXCEPT ![c] = NoPath]
    /\ argv' = [argv EXCEPT ![c] = <<>>]
    /\ spawns' = [spawns EXCEPT ![c] = 0]
    /\ child' = [child EXCEPT ![c] = NoChild]
    /\ ret' = [ret EXCEPT ![c] = NoRet]
    /\ before' = [before EXCEPT ![c] = fs]
    /\ UNCHANGED <<cwd, scripts, python3, fs, ls>>

(* ---------------- the backend (from the specification) ---------------- *)
RECURSIVE ErrLines(_)
\* n lines of diagnostics, separated by line feeds
ErrLines(n) ==
    IF n = 0 THEN <<>>
    ELSE IF n = 1 THEN <<"error: cannot read x", "0xFF">>
    ELSE ErrLines(n - 1) \o <<LF, "  at backend">>

\* what a failing backend can leave on stderr
ErrTexts == {ErrLines(n) : n \in 0..MaxErrLines}

Categories == {"Documents"}
\* confidence in tenths
Confidences == {0, 5, 10}

ResultObj(cat, conf, multi) ==
    [category |-> cat, confidence |-> conf,
     suggested_path |-> "Documents/a.pdf", tags |-> <<"pdf">>,
     model_used |-> IF multi THEN "ensemble" ELSE "single",
     processing_time_ms |-> 12, tokens_used |-> 40,
     cost_usd |-> IF multi THEN 2 ELSE 1]

Without(obj, f) == [k \in DOMAIN obj \ {f} |-> obj[k]]
Json(obj) == [json |-> TRUE, obj |-> obj, report |-> <<>>]

\* results the Classifier produces: confidence in [0,1], a category
GoodStdouts(multi) ==
    {Json(ResultObj(cat, conf, multi)) :
        cat \in Categories, conf \in Confidences}

\* what a run that fails may have written to stdout before it failed
PartialStdouts(multi) ==
    {NoStdout,
     Json(ResultObj("Documents", 10, multi)),
     Json(ResultObj("", 15, multi)),
     Json(Without(ResultObj("Documents", 5, multi), "category"))}

HasFlag(a, flag) == \E i \in DOMAIN a : a[i] = flag

\* the value that follows --tier; the lowest tier when none is given
TierOf(a) ==
    IF \E i \in 1..(Len(a) - 1) : a[i] = "--tier"
    THEN a[(CHOOSE i \in 1..(Len(a) - 1) : a[i] = "--tier") + 1]
    ELSE "free"

Exit(c, st, out, err) ==
    child' = [child EXCEPT ![c].st = "exited", ![c].status = st,
                           ![c].stdout = out, ![c].stderr = err,
                           ![c].phase = "end"]

\* classify_single.py --file <path> --json [--multi-model --tier <tier>]
classify_single(c) ==
    /\ child[c].st = "running"
    /\ Len(argv[c]) >= 4 /\ argv[c][2] = "--file"
    /\ LET a == argv[c]
           multi == HasFlag(a, "--multi-model")
       IN  IF a[3] \notin RegularFiles \/ TierOf(a) \notin Tiers
           THEN \* InputError: rejected before any work starts
                \E err \in ErrTexts : Exit(c, 1, NoStdout, err)
           ELSE \/ \E out \in GoodStdouts(multi) : Exit(c, 0, out, <<>>)
                \* log text on stdout ahead of the result
                \/ Exit(c, 0, NoStdout, <<>>)
                \* IOError, ModelError, ParseError
                \/ \E out \in PartialStdouts(multi), err \in ErrTexts :
                       Exit(c, 1, out, err)
    /\ UNCHANGED <<cwd, scripts, python3, fs, req, pc, project_root,
                   python_script, argv, spawns, ret, before, ls>>

InFolder(f) == Folder \o "/" \o f
Destination(f) == "/sorted/Documents/" \o f
Entry(f, outcome) == f \o ": " \o outcome

RECURSIVE Sorted(_)
\* the files of a set in lexical order
Sorted(S) ==
    IF S = {} THEN <<>>
    ELSE LET i == CHOOSE k \in 1..Len(FileNames) :
                     /\ FileNames[k] \in S
                     /\ \A j \in 1..(k - 1) : FileNames[j] \notin S
         IN  <<FileNames[i]>> \o Sorted(S \ {FileNames[i]})

\* the plan is executed only with --auto, and never with --preview
Execute(a) == HasFlag(a, "--auto") /\ ~HasFlag(a, "--preview")

\* commands.py organize <folder> ...: validation, then Scanning
organizer_scan(c) ==
    /\ child[c].st = "running"
    /\ child[c].phase = "none"
    /\ Len(argv[c]) >= 3 /\ argv[c][2] = "organize"
    /\ LET a == argv[c] IN
       IF a[3] \notin Directories \/ TierOf(a) \notin Tiers
       THEN \* InputError: rejected before any work starts
            \E err \in ErrTexts : Exit(c, 1, NoStdout, err)
       ELSE LET here == {f \in Files : fs[f].path = InFolder(f)}
            IN  child' = [child EXCEPT ![c].phase = "classifying",
                                       ![c].todo = Sorted(here),
                                       ![c].scanned = here]
    /\ UNCHANGED <<cwd, scripts, python3, fs, req, pc, project_root,
                   python_script, argv, spawns, ret, before, ls>>

Reported(c, f, outcome) ==
    [child EXCEPT ![c].todo = Tail(@),
                  ![c].stdout.report = Append(@, Entry(f, outcome))]

\* Classifying, Planning and Moving of the next file
organizer_file(c) ==
    /\ child[c].st = "running"
    /\ child[c].phase = "classifying"
    /\ child[c].todo # <<>>
    /\ LET f == Head(child[c].todo) IN
       \/ \* ModelError, or the move failed: recorded, the batch continues
          /\ child' = Reported(c, f, "failed")
          /\ UNCHANGED fs
       \/ /\ ~Execute(argv[c])
          /\ child' = Reported(c, f, "planned")
          /\ UNCHANGED fs
       \/ /\ Execute(argv[c])
          /\ fs[f].path = InFolder(f)
          /\ fs' = [fs EXCEPT ![f].path = Destination(f)]
          /\ child' = [Reported(c, f, "success") EXCEPT
                          ![c].moved = @ \cup {f}]
    /\ UNCHANGED <<cwd, scripts, python3, req, pc, project_root,
                   python_script, argv, spawns, ret, before, ls>>

RECURSIVE Skipped(_)
Skipped(todo) ==
    IF todo = <<>> THEN <<>>
    ELSE <<Entry(Head(todo), "skipped-by-budget")>> \o Skipped(Tail(todo))

\* BudgetExceededError: the rest is skipped and the whole call fails
organizer_budget(c) ==
    /\ child[c].st = "running"
    /\ child[c].phase = "classifying"
    /\ child[c].todo # <<>>
    /\ \E err \in ErrTexts :
        child' = [child EXCEPT
            ![c].st = "exited", ![c].status = 1, ![c].stderr = err,
            ![c].phase = "end", ![c].todo = <<>>,
            ![c].stdout.report = @ \o Skipped(child[c].todo)]
    /\ UNCHANGED <<cwd, scripts, python3, fs, req, pc, project_root,
                   python_script, argv, spawns, ret, before, ls>>

\* Done (or Preview: stop): the report goes to stdout
organizer_exit(c) ==
    /\ child[c].st = "running"
    /\ child[c].phase = "classifying"
    /\ child[c].todo = <<>>
    /\ Exit(c, 0, child[c].stdout, <<>>)
    /\ UNCHANGED <<cwd, scripts, python3, fs, req, pc, project_root,
                   python_script, argv, spawns, ret, before, ls>>

(* ----------------------------- list_files ------------------------------ *)
\* a path text is kept as its parts: whether it starts at the root, and its
\* components, each a sequence of bytes
DocsDir == <<<<"app">>, <<"desktop-app">>, <<"docs">>>>

\* what the directory /app/desktop-app/docs can hold; names are bytes
AllEntries ==
    {[name |-> <<"a.txt">>, kind |-> "file", size |-> 3, mtime |-> TRUE],
     [name |-> <<"sub">>, kind |-> "dir", size |-> 0, mtime |-> TRUE],
     [name |-> <<"lnk">>, kind |-> "symlink", size |-> 5, mtime |-> TRUE],
     [name |-> <<"x", "0xFF">>, kind |-> "file", size |-> 1, mtime |-> FALSE],
     [name |-> <<"x", "0xFE">>, kind |-> "file", size |-> 2, mtime |-> TRUE]}

\* the directory arguments a caller passes
DirArgs ==
    {[text |-> "/app/desktop-app/docs", abs |-> TRUE, comps |-> DocsDir],
     [text |-> "docs", abs |-> FALSE, comps |-> <<<<"docs">>>>],
     [text |-> "/nope", abs |-> TRUE, comps |-> <<<<"nope">>>>],
     [text |-> "/app/desktop-app/docs/a.txt", abs |-> TRUE,
      comps |-> DocsDir \o <<<<"a.txt">>>>]}

\* the file a path names: a relative path starts at the current directory
Resolve(d) ==
    IF d.abs THEN d.comps ELSE [i \in DOMAIN cwd |-> <<cwd[i]>>] \o d.comps

\* Path::exists
PathExists(d) ==
    \/ Resolve(d) = DocsDir
    \/ \E e \in ls.disk : Resolve(d) = DocsDir \o <<e.name>>

\* entry.path().to_string_lossy(): the directory as given, joined with the
\* entry's name
EntryPath(d, e) ==
    [abs |-> d.abs, comps |-> d.comps \o <<from_utf8_lossy(e.name)>>]

FileItem(d, e) ==
    [path |-> EntryPath(d, e),
     name |-> from_utf8_lossy(e.name),
     size |-> e.size,
     modified |-> IF e.mtime THEN "SystemTime { .. }" ELSE "Unknown",
     category |-> "None"]

list_files_call(d) ==
    /\ ls.pc = "idle"
    /\ ls' = [ls EXCEPT !.pc = "exists", !.directory = d, !.todo = {},
                        !.files = <<>>, !.tag = "none", !.err = <<>>]
    /\ UNCHANGED <<cwd, scripts, python3, fs, req, pc, project_root,
                   python_script, argv, spawns, child, ret, before>>

\* if !path.exists() { return Err(..) }
list_files_exists ==
    /\ ls.pc = "exists"
    /\ IF ~PathExists(ls.directory)
       THEN ls' = [ls EXCEPT !.pc = "done", !.tag = "Err",
                             !.err = <<"Directory does not exist: ",
                                       ls.directory.text>>]
       ELSE ls' = [ls EXCEPT !.pc = "read_dir"]
    /\ UNCHANGED <<cwd, scripts, python3, fs, req, pc, project_root,
                   python_script, argv, spawns, child, ret, before>>

\* match std::fs::read_dir(&path)
list_files_read_dir ==
    /\ ls.pc = "read_dir"
    /\ IF Resolve(ls.directory) = DocsDir
       THEN ls' = [ls EXCEPT !.pc = "entries", !.todo = ls.disk]
       ELSE ls' = [ls EXCEPT !.pc = "done", !.tag = "Err",
                             !.err = <<"Failed to read directory: ",
                                       "Not a directory (os error 20)">>]
    /\ UNCHANGED <<cwd, scripts, python3, fs, req, pc, project_root,
                   python_script, argv, spawns, child, ret, before>>

\* one turn of the loop; the directory is read in no particular order
list_files_entry ==
    /\ ls.pc = "entries"
    /\ \E e \in ls.todo :
        \/ \* the entry, or its metadata, cannot be read: skipped
           ls' = [ls EXCEPT !.todo = @ \ {e}]
        \/ ls' = [ls EXCEPT !.todo = @ \ {e},
                            !.files = IF e.kind = "file"
                                      THEN Append(@, FileItem(ls.directory, e))
                                      ELSE @]
    /\ UNCHANGED <<cwd, scripts, python3, fs, req, pc, project_root,
                   python_script, argv, spawns, child, ret, before>>

\* Ok(files)
list_files_return ==
    /\ ls.pc = "entries"
    /\ ls.todo = {}
    /\ ls' = [ls EXCEPT !.pc = "done", !.tag = "Ok"]
    /\ UNCHANGED <<cwd, scripts, python3, fs, req, pc, project_root,
                   python_script, argv, spawns, child, ret, before>>

list_files_collect ==
    /\ ls.pc = "done"
    /\ ls' = [ls EXCEPT !.pc = "idle", !.todo = {}, !.files = <<>>,
                        !.tag = "none", !.err = <<>>]
    /\ UNCHANGED <<cwd, scripts, python3, fs, req, pc, project_root,
                   python_script, argv, spawns, child, ret, before>>

(* --------------------------- specifications ---------------------------- *)
NoListing ==
    [pc |-> "idle", disk |-> {},
     directory |-> [text |-> "", abs |-> FALSE, comps |-> <<>>],
     todo |-> {}, files |-> <<>>, tag |-> "none", err |-> <<>>]

InitShell ==
    /\ req = [c \in Calls |-> NoReq]
    /\ pc = [c \in Calls |-> "idle"]
    /\ project_root = [c \in Calls |-> NoPath]
    /\ python_script = [c \in Calls |-> NoPath]
    /\ argv = [c \in Calls |-> <<>>]
    /\ spawns = [c \in Calls |-> 0]
    /\ child = [c \in Calls |-> NoChild]
    /\ ret = [c \in Calls |-> NoRet]
    /\ fs = [f \in Files |-> [path |-> InFolder(f), content |-> "bytes of " \o f]]
    /\ before = [c \in Calls |-> fs]

Init ==
    /\ cwd \in {AppDir, RootDir, Deleted}
    /\ scripts \in SUBSET {ClassifyScript, CommandsScript}
    /\ python3 \in BOOLEAN
    /\ InitShell
    /\ ls = NoListing

Step(c) ==
    \/ current_dir(c)
    \/ parent(c)
    \/ exists(c)
    \/ spawn(c)
    \/ classify_single(c)
    \/ organizer_scan(c)
    \/ organizer_file(c)
    \/ organizer_budget(c)
    \/ organizer_exit(c)
    \/ output(c)
    \/ Collect(c)

\* one command at a time
Next ==
    \/ \E r \in Requests : Invoke("c1", r)
    \/ Step("c1")

Spec == Init /\ [][Next]_vars

\* two commands in flight at once
ConcRequests ==
    {r \in ClassifyRequests : r.use_multi_model}
    \cup
    {r \in OrganizeRequests :
        /\ r.folder \in Directories /\ r.tier \in Tiers
        /\ ~r.use_multi_model /\ ~r.deep_analysis
        /\ r.preview = ~r.auto_approve}

InitConc ==
    /\ cwd = AppDir
    /\ scripts \in {{ClassifyScript, CommandsScript}, {ClassifyScript}}
    /\ python3 \in BOOLEAN
    /\ InitShell
    /\ ls = NoListing

NextConc ==
    \E c \in Calls :
        \/ \E r \in ConcRequests : Invoke(c, r)
        \/ Step(c)

SpecConc == InitConc /\ [][NextConc]_vars

\* the directories list_files is called on
InitList ==
    /\ cwd \in {AppDir, RootDir}
    /\ scripts = {ClassifyScript, CommandsScript}
    /\ python3 = TRUE
    /\ InitShell
    /\ \E S \in SUBSET AllEntries :
        /\ Cardinality(S) <= MaxEntries
        /\ ls = [NoListing EXCEPT !.disk = S]

NextList ==
    \/ \E d \in DirArgs : list_files_call(d)
    \/ list_files_exists
    \/ list_files_read_dir
    \/ list_files_entry
    \/ list_files_return
    \/ list_files_collect

SpecList == InitList /\ [][NextList]_vars

(* ------------------------------ properties ----------------------------- *)
Outcomes == {"success", "failed", "planned", "skipped-by-budget"}
Accounts(text, f) == \E i \in DOMAIN text, o \in Outcomes : text[i] = Entry(f, o)
Flag(b, f) == IF b THEN <<f>> ELSE <<>>
ScriptOf(r) == IF r.cmd = "classify" THEN ClassifyScript ELSE CommandsScript

\* an input the specification calls an InputError
InputError(r) ==
    \/ r.cmd = "classify" /\ r.file_path \notin RegularFiles
    \/ r.cmd = "organize" /\ r.folder \notin Directories
    \/ r.cmd # "none" /\ r.tier \notin Tiers

\* C1: an organize_folder call with preview = true leaves the filesystem as
\* it was when the call started, whatever the other options are: no file's
\* path or content differs.
PreviewLeavesFilesystemUnchanged ==
    \A c \in Calls :
        (req[c].cmd = "organize" /\ req[c].preview)
            => (fs = before[c] /\ child[c].moved = {})

\* a preview that also asked for auto-approval ran over a non-empty folder
PreviewWitness ==
    \E c \in Calls :
        /\ pc[c] = "done" /\ req[c].cmd = "organize"
        /\ req[c].preview /\ req[c].auto_approve
        /\ ret[c].tag = "Ok" /\ child[c].scanned # {}
        /\ \E f \in child[c].scanned : Entry(f, "planned") \in Range(ret[c].text)

\* C2: an execute run (auto_approve = true) that has made progress returns
\* a value that accounts for every file of the run; it never returns a bare
\* error, also when the backend ends with a failure status after moving files.
ExecuteRunAlwaysReports ==
    \A c \in Calls :
        (/\ pc[c] = "done" /\ req[c].cmd = "organize"
         /\ req[c].auto_approve /\ child[c].moved # {})
            => /\ ret[c].tag = "Ok"
               /\ \A f \in child[c].scanned : Accounts(ret[c].text, f)

\* C3: an input error (bad file path, missing folder, tier outside the
\* enumerated set) is rejected before any work starts: no subprocess is
\* spawned for it and the call returns Err.
InputErrorsRejectedBeforeSpawn ==
    \A c \in Calls :
        InputError(req[c])
            => /\ spawns[c] = 0
               /\ pc[c] = "done" => ret[c].tag = "Err"

\* C4: every Err returned by classify_file or organize_folder is a single
\* line: it holds no line break.
ErrIsSingleLine ==
    \A c \in Calls :
        (pc[c] = "done" /\ ret[c].tag = "Err") => LF \notin Range(ret[c].err)

IsolatedCalls ==
    /\ \A c \in Calls :
        /\ spawns[c] <= 1
        /\ pc[c] \in {"done", "idle"} => child[c].st # "running"
        /\ child[c].st # "none" => spawns[c] = 1
    /\ \A c1, c2 \in Calls :
        (/\ pc[c1] = "done" /\ pc[c2] = "done"
         /\ req[c1] = req[c2]
         /\ child[c1].st = child[c2].st
         /\ child[c1].status = child[c2].status
         /\ child[c1].stdout = child[c2].stdout
         /\ child[c1].stderr = child[c2].stderr)
            => ret[c1] = ret[c2]

\* one invocation has returned while the other's subprocess is still running
IsolatedWitness ==
    \E c1, c2 \in Calls :
        /\ c1 # c2
        /\ pc[c1] = "done" /\ spawns[c1] = 1 /\ child[c1].st = "exited"
        /\ pc[c2] = "output" /\ child[c2].st = "running"

\* C8: the arguments handed to the subprocess are the script, the fixed
\* words and the path, then --preview, --auto, --deep in this order, each iff
\* its option is set, then --multi-model --tier <tier> iff use_multi_model;
\* without use_multi_model the tier is not among them and the command is the
\* same for every tier.
ExpectedArgs(c) ==
    LET r == req[c]
        tail == IF r.use_multi_model
                THEN <<"--multi-model", "--tier", r.tier>> ELSE <<>>
    IN  IF r.cmd = "classify"
        THEN <<Display(python_script[c]), "--file", r.file_path, "--json">>
                \o tail
        ELSE <<Display(python_script[c]), "organize", r.folder>>
                \o Flag(r.preview, "--preview")
                \o Flag(r.auto_approve, "--auto")
                \o Flag(r.deep_analysis, "--deep")
                \o tail

ArgsAsSpecified ==
    \A c \in Calls :
        argv[c] # <<>>
            => /\ argv[c] = ExpectedArgs(c)
               /\ ~req[c].use_multi_model
                    => /\ req[c].tier \notin Range(argv[c])
                       /\ \A t \in TierArgs :
                            build_args(python_script[c],
                                       [req[c] EXCEPT !.tier = t]) = argv[c]

\* organize_folder spawned the backend with every option set
ArgsWitness ==
    \E c \in Calls :
        /\ spawns[c] = 1 /\ req[c].cmd = "organize"
        /\ req[c].preview /\ req[c].auto_approve /\ req[c].deep_analysis
        /\ req[c].use_multi_model
        /\ Len(argv[c]) = 9

\* C9: the steps run in the order current directory, parent, script exists,
\* spawn: a call that is about to spawn holds the script path derived from
\* the current directory and that script exists; if the current directory
\* cannot be read, has no parent, or the script is missing, the call spawns
\* nothing and returns Err.
ScriptCheckedBeforeSpawn ==
    \A c \in Calls :
        /\ (pc[c] \in {"spawn", "output"} \/ spawns[c] > 0)
            => /\ cwd = AppDir
               /\ project_root[c] = cwd
               /\ python_script[c] = ScriptOf(req[c])
               /\ python_script[c] \in scripts
        /\ (/\ pc[c] # "idle"
            /\ (cwd = Deleted \/ cwd = RootDir \/ ScriptOf(req[c]) \notin scripts))
            => /\ spawns[c] = 0
               /\ child[c].st = "none"
               /\ pc[c] = "done" => ret[c].tag = "Err"

\* a call stopped at the missing script
ScriptMissingWitness ==
    \E c \in Calls :
        /\ pc[c] = "done" /\ cwd = AppDir
        /\ python_script[c] = ScriptOf(req[c])
        /\ python_script[c] \notin scripts
        /\ ret[c].tag = "Err" /\ spawns[c] = 0

\* C10: classify_file returns Ok exactly when the subprocess was spawned,
\* exited with success and its stdout parses; a failure exit gives the Err
\* built from stderr even with a valid result on stdout, a success exit with
\* unparsable stdout gives Err.  organize_folder returns Ok(stdout) exactly
\* when the subprocess exited with success, whatever stdout holds, and the
\* Err built from stderr otherwise.
OutcomeFollowsExitStatus ==
    \A c \in Calls :
        pc[c] = "done" =>
            LET ran == spawns[c] = 1 /\ child[c].st = "exited"
                good == ran /\ child[c].status = 0
                bad == ran /\ child[c].status # 0
            IN  /\ req[c].cmd = "classify" =>
                    /\ ret[c].tag = "Ok" <=> (good /\ Parses(child[c].stdout))
                    /\ ret[c].tag = "Ok" =>
                        ret[c].result.category = child[c].stdout.obj.category
                    /\ bad => ret[c].err =
                                <<"Python script failed: ">>
                                    \o from_utf8_lossy(child[c].stderr)
                    /\ (good /\ ~Parses(child[c].stdout)) =>
                        /\ ret[c].tag = "Err"
                        /\ ret[c].err[1] = "Failed to parse JSON: "
                /\ req[c].cmd = "organize" =>
                    /\ ret[c].tag = "Ok" <=> good
                    /\ ret[c].tag = "Ok" =>
                        ret[c].text = from_utf8_lossy(child[c].stdout.report)
                    /\ bad => /\ ret[c].tag = "Err"
                              /\ ret[c].err =
                                    <<"Organization failed: ">>
                                        \o from_utf8_lossy(child[c].stderr)

\* a classify_file call failed although its stdout held a valid result
FailureExitWitness ==
    \E c \in Calls :
        /\ pc[c] = "done" /\ req[c].cmd = "classify"
        /\ child[c].status # 0 /\ Parses(child[c].stdout)
        /\ ret[c].tag = "Err"

\* C7: every record list_files returns has an absolute path that no other
\* record of the list has, no category, and describes a regular file that
\* lies directly in the directory given.
ListedPathsAbsoluteAndUnique ==
    (ls.pc = "done" /\ ls.tag = "Ok") =>
        /\ \A i \in DOMAIN ls.files :
            /\ ls.files[i].path.abs
            /\ ls.files[i].category = "None"
            /\ \E e \in ls.disk :
                /\ e.kind = "file"
                /\ ls.files[i].path.comps =
                        ls.directory.comps \o <<from_utf8_lossy(e.name)>>
        /\ \A i, j \in DOMAIN ls.files :
            i # j => ls.files[i].path # ls.files[j].path

====
